---- MODULE Spec2Model ----
(***************************************************************************)
(* Model of github_readme.py: the bounded-depth project walk of            *)
(* analyze_project_structure, the tools scan_project and generate_readme   *)
(* built on it, and the helpers should_ignore and get_file_info.           *)
(*                                                                         *)
(* Python strings are sequences of one-character strings.  File and        *)
(* directory names are kept in the state as TLA+ strings and turned into   *)
(* their characters by Chars whenever the code looks inside them           *)
(* (fnmatch, suffix, lower, substring search).  A path is the sequence of  *)
(* its segments; PathStr gives its characters.                             *)
(***************************************************************************)
EXTENDS Integers, Sequences, FiniteSets, TLC

VARIABLES fs, call, pc, stack, cur, dirs, pending, structure, analysis, visited, result

vars == <<fs, call, pc, stack, cur, dirs, pending, structure, analysis, visited, result>>

(***************************************************************************)
(* Bounds of the model.                                                    *)
(***************************************************************************)
MaxFiles == 2
MaxDepthArg == 1
ManyExtra == 1

(***************************************************************************)
(* Program constants.                                                      *)
(***************************************************************************)
DefaultMaxDepth == 3
StructureLimit == 20

None == "<None>"

(***************************************************************************)
(* Strings.                                                                *)
(***************************************************************************)
Chars ==
       ("app" :> <<"a", "p", "p">>)
    @@ ("package.json-lint" :> <<"p", "a", "c", "k", "a", "g", "e", ".", "j", "s", "o", "n", "-", "l", "i", "n", "t">>)
    @@ ("src" :> <<"s", "r", "c">>)
    @@ ("lib" :> <<"l", "i", "b">>)
    @@ ("core" :> <<"c", "o", "r", "e">>)
    @@ (".git" :> <<".", "g", "i", "t">>)
    @@ ("objects" :> <<"o", "b", "j", "e", "c", "t", "s">>)
    @@ ("README.md" :> <<"R", "E", "A", "D", "M", "E", ".", "m", "d">>)
    @@ ("package.json" :> <<"p", "a", "c", "k", "a", "g", "e", ".", "j", "s", "o", "n">>)
    @@ ("Cargo.toml" :> <<"C", "a", "r", "g", "o", ".", "t", "o", "m", "l">>)
    @@ ("LICENSE" :> <<"L", "I", "C", "E", "N", "S", "E">>)
    @@ ("main.PY" :> <<"m", "a", "i", "n", ".", "P", "Y">>)
    @@ ("x.pyc" :> <<"x", ".", "p", "y", "c">>)
    @@ ("index.js" :> <<"i", "n", "d", "e", "x", ".", "j", "s">>)
    @@ ("dockerfile" :> <<"d", "o", "c", "k", "e", "r", "f", "i", "l", "e">>)
    @@ ("util.py" :> <<"u", "t", "i", "l", ".", "p", "y">>)
    @@ ("k.rs" :> <<"k", ".", "r", "s">>)
    @@ ("hook.py" :> <<"h", "o", "o", "k", ".", "p", "y">>)
    @@ ("m01" :> <<"m", "0", "1">>)
    @@ ("m02" :> <<"m", "0", "2">>)
    @@ ("m03" :> <<"m", "0", "3">>)
    @@ ("m04" :> <<"m", "0", "4">>)
    @@ ("m05" :> <<"m", "0", "5">>)
    @@ ("m06" :> <<"m", "0", "6">>)
    @@ ("m07" :> <<"m", "0", "7">>)
    @@ ("m08" :> <<"m", "0", "8">>)
    @@ ("m09" :> <<"m", "0", "9">>)
    @@ ("m10" :> <<"m", "1", "0">>)
    @@ ("m11" :> <<"m", "1", "1">>)
    @@ ("m12" :> <<"m", "1", "2">>)
    @@ ("m13" :> <<"m", "1", "3">>)
    @@ ("m14" :> <<"m", "1", "4">>)
    @@ ("m15" :> <<"m", "1", "5">>)
    @@ ("m16" :> <<"m", "1", "6">>)
    @@ ("m17" :> <<"m", "1", "7">>)
    @@ ("m18" :> <<"m", "1", "8">>)
    @@ ("m19" :> <<"m", "1", "9">>)
    @@ ("m20" :> <<"m", "2", "0">>)
    @@ ("m21" :> <<"m", "2", "1">>)
    @@ ("m22" :> <<"m", "2", "2">>)
    @@ ("m23" :> <<"m", "2", "3">>)
    @@ ("*.pyc" :> <<"*", ".", "p", "y", "c">>)
    @@ ("__pycache__" :> <<"_", "_", "p", "y", "c", "a", "c", "h", "e", "_", "_">>)
    @@ (".gitignore" :> <<".", "g", "i", "t", "i", "g", "n", "o", "r", "e">>)
    @@ ("node_modules" :> <<"n", "o", "d", "e", "_", "m", "o", "d", "u", "l", "e", "s">>)
    @@ (".env" :> <<".", "e", "n", "v">>)
    @@ ("*.log" :> <<"*", ".", "l", "o", "g">>)
    @@ (".DS_Store" :> <<".", "D", "S", "_", "S", "t", "o", "r", "e">>)
    @@ ("*.tmp" :> <<"*", ".", "t", "m", "p">>)
    @@ ("*.temp" :> <<"*", ".", "t", "e", "m", "p">>)
    @@ (".vscode" :> <<".", "v", "s", "c", "o", "d", "e">>)
    @@ (".idea" :> <<".", "i", "d", "e", "a">>)
    @@ ("*.sqlite" :> <<"*", ".", "s", "q", "l", "i", "t", "e">>)
    @@ ("*.db" :> <<"*", ".", "d", "b">>)
    @@ ("dist" :> <<"d", "i", "s", "t">>)
    @@ ("build" :> <<"b", "u", "i", "l", "d">>)
    @@ (".pytest_cache" :> <<".", "p", "y", "t", "e", "s", "t", "_", "c", "a", "c", "h", "e">>)
    @@ ("README.txt" :> <<"R", "E", "A", "D", "M", "E", ".", "t", "x", "t">>)
    @@ ("README.rst" :> <<"R", "E", "A", "D", "M", "E", ".", "r", "s", "t">>)
    @@ ("readme.md" :> <<"r", "e", "a", "d", "m", "e", ".", "m", "d">>)
    @@ ("LICENSE.txt" :> <<"L", "I", "C", "E", "N", "S", "E", ".", "t", "x", "t">>)
    @@ ("LICENSE.md" :> <<"L", "I", "C", "E", "N", "S", "E", ".", "m", "d">>)
    @@ ("license" :> <<"l", "i", "c", "e", "n", "s", "e">>)
    @@ ("requirements.txt" :> <<"r", "e", "q", "u", "i", "r", "e", "m", "e", "n", "t", "s", ".", "t", "x", "t">>)
    @@ ("setup.py" :> <<"s", "e", "t", "u", "p", ".", "p", "y">>)
    @@ ("composer.json" :> <<"c", "o", "m", "p", "o", "s", "e", "r", ".", "j", "s", "o", "n">>)
    @@ ("pom.xml" :> <<"p", "o", "m", ".", "x", "m", "l">>)
    @@ ("build.gradle" :> <<"b", "u", "i", "l", "d", ".", "g", "r", "a", "d", "l", "e">>)
    @@ ("Gemfile" :> <<"G", "e", "m", "f", "i", "l", "e">>)
    @@ ("Dockerfile" :> <<"D", "o", "c", "k", "e", "r", "f", "i", "l", "e">>)
    @@ ("docker-compose.yml" :> <<"d", "o", "c", "k", "e", "r", "-", "c", "o", "m", "p", "o", "s", "e", ".", "y", "m", "l">>)
    @@ ("docker-compose.yaml" :> <<"d", "o", "c", "k", "e", "r", "-", "c", "o", "m", "p", "o", "s", "e", ".", "y", "a", "m", "l">>)
    @@ (".github/workflows" :> <<".", "g", "i", "t", "h", "u", "b", "/", "w", "o", "r", "k", "f", "l", "o", "w", "s">>)
    @@ (".gitlab-ci.yml" :> <<".", "g", "i", "t", "l", "a", "b", "-", "c", "i", ".", "y", "m", "l">>)
    @@ (".travis.yml" :> <<".", "t", "r", "a", "v", "i", "s", ".", "y", "m", "l">>)
    @@ (".env.example" :> <<".", "e", "n", "v", ".", "e", "x", "a", "m", "p", "l", "e">>)
    @@ (".env.sample" :> <<".", "e", "n", "v", ".", "s", "a", "m", "p", "l", "e">>)
    @@ ("readme" :> <<"r", "e", "a", "d", "m", "e">>)
    @@ ("config" :> <<"c", "o", "n", "f", "i", "g">>)
    @@ ("docker" :> <<"d", "o", "c", "k", "e", "r">>)
    @@ ("ci" :> <<"c", "i">>)
    @@ ("env" :> <<"e", "n", "v">>)
    @@ (".py" :> <<".", "p", "y">>)
    @@ (".js" :> <<".", "j", "s">>)
    @@ (".ts" :> <<".", "t", "s">>)
    @@ (".java" :> <<".", "j", "a", "v", "a">>)
    @@ (".cpp" :> <<".", "c", "p", "p">>)
    @@ (".c" :> <<".", "c">>)
    @@ (".go" :> <<".", "g", "o">>)
    @@ (".rs" :> <<".", "r", "s">>)
    @@ (".rb" :> <<".", "r", "b">>)
    @@ (".php" :> <<".", "p", "h", "p">>)
    @@ ("Project path '" :> <<"P", "r", "o", "j", "e", "c", "t", " ", "p", "a", "t", "h", " ", "'">>)
    @@ ("' does not exist" :> <<"'", " ", "d", "o", "e", "s", " ", "n", "o", "t", " ", "e", "x", "i", "s", "t">>)
    @@ ("Error: " :> <<"E", "r", "r", "o", "r", ":", " ">>)
    @@ ("{" :> <<"{">>)
    @@ ("}" :> <<"}">>)
    @@ ("'" :> <<"'">>)
    @@ (": " :> <<":", " ">>)
    @@ (", " :> <<",", " ">>)
    @@ ("/" :> <<"/">>)
    @@ ("Demo" :> <<"D", "e", "m", "o">>)

LowerTable ==
       ("A" :> "a")
    @@ ("B" :> "b")
    @@ ("C" :> "c")
    @@ ("D" :> "d")
    @@ ("E" :> "e")
    @@ ("F" :> "f")
    @@ ("G" :> "g")
    @@ ("H" :> "h")
    @@ ("I" :> "i")
    @@ ("J" :> "j")
    @@ ("K" :> "k")
    @@ ("L" :> "l")
    @@ ("M" :> "m")
    @@ ("N" :> "n")
    @@ ("O" :> "o")
    @@ ("P" :> "p")
    @@ ("Q" :> "q")
    @@ ("R" :> "r")
    @@ ("S" :> "s")
    @@ ("T" :> "t")
    @@ ("U" :> "u")
    @@ ("V" :> "v")
    @@ ("W" :> "w")
    @@ ("X" :> "x")
    @@ ("Y" :> "y")
    @@ ("Z" :> "z")

UpperTable ==
       ("a" :> "A")
    @@ ("b" :> "B")
    @@ ("c" :> "C")
    @@ ("d" :> "D")
    @@ ("e" :> "E")
    @@ ("f" :> "F")
    @@ ("g" :> "G")
    @@ ("h" :> "H")
    @@ ("i" :> "I")
    @@ ("j" :> "J")
    @@ ("k" :> "K")
    @@ ("l" :> "L")
    @@ ("m" :> "M")
    @@ ("n" :> "N")
    @@ ("o" :> "O")
    @@ ("p" :> "P")
    @@ ("q" :> "Q")
    @@ ("r" :> "R")
    @@ ("s" :> "S")
    @@ ("t" :> "T")
    @@ ("u" :> "U")
    @@ ("v" :> "V")
    @@ ("w" :> "W")
    @@ ("x" :> "X")
    @@ ("y" :> "Y")
    @@ ("z" :> "Z")

CharCode ==
       (" " :> 32)
    @@ ("'" :> 39)
    @@ ("*" :> 42)
    @@ ("," :> 44)
    @@ ("-" :> 45)
    @@ ("." :> 46)
    @@ ("/" :> 47)
    @@ ("0" :> 48)
    @@ ("1" :> 49)
    @@ ("2" :> 50)
    @@ ("3" :> 51)
    @@ ("4" :> 52)
    @@ ("5" :> 53)
    @@ ("6" :> 54)
    @@ ("7" :> 55)
    @@ ("8" :> 56)
    @@ ("9" :> 57)
    @@ (":" :> 58)
    @@ ("A" :> 65)
    @@ ("C" :> 67)
    @@ ("D" :> 68)
    @@ ("E" :> 69)
    @@ ("G" :> 71)
    @@ ("I" :> 73)
    @@ ("L" :> 76)
    @@ ("M" :> 77)
    @@ ("N" :> 78)
    @@ ("P" :> 80)
    @@ ("R" :> 82)
    @@ ("S" :> 83)
    @@ ("Y" :> 89)
    @@ ("_" :> 95)
    @@ ("a" :> 97)
    @@ ("b" :> 98)
    @@ ("c" :> 99)
    @@ ("d" :> 100)
    @@ ("e" :> 101)
    @@ ("f" :> 102)
    @@ ("g" :> 103)
    @@ ("h" :> 104)
    @@ ("i" :> 105)
    @@ ("j" :> 106)
    @@ ("k" :> 107)
    @@ ("l" :> 108)
    @@ ("m" :> 109)
    @@ ("n" :> 110)
    @@ ("o" :> 111)
    @@ ("p" :> 112)
    @@ ("q" :> 113)
    @@ ("r" :> 114)
    @@ ("s" :> 115)
    @@ ("t" :> 116)
    @@ ("u" :> 117)
    @@ ("v" :> 118)
    @@ ("w" :> 119)
    @@ ("x" :> 120)
    @@ ("y" :> 121)
    @@ ("{" :> 123)
    @@ ("}" :> 125)

Range(s) == {s[i] : i \in 1..Len(s)}

LowerChar(c) == IF c \in DOMAIN LowerTable THEN LowerTable[c] ELSE c

UpperChar(c) == IF c \in DOMAIN UpperTable THEN UpperTable[c] ELSE c

Lower(s) == [i \in 1..Len(s) |-> LowerChar(s[i])]

Upper(s) == [i \in 1..Len(s) |-> UpperChar(s[i])]

\* needle in haystack
Contains(haystack, needle) ==
    \E i \in 1..(Len(haystack) - Len(needle) + 1) :
        SubSeq(haystack, i, i + Len(needle) - 1) = needle

RECURSIVE JoinChars(_, _)
JoinChars(segs, sep) ==
    IF segs = <<>> THEN <<>>
    ELSE IF Len(segs) = 1 THEN Chars[segs[1]]
    ELSE Chars[segs[1]] \o sep \o JoinChars(Tail(segs), sep)

\* str(path)
PathStr(p) == JoinChars(p, Chars["/"])

\* os.path.basename(path) and Path.name
Basename(p) == p[Len(p)]

\* Path(a).relative_to(b), for b a prefix of a
RelativeTo(p, base) == SubSeq(p, Len(base) + 1, Len(p))

\* Path.suffix: the part of the name from its last dot, when that dot is
\* neither the first nor the last character
Suffix(name) ==
    LET dots == {i \in 1..Len(name) : name[i] = "."}
    IN  IF dots = {} THEN <<>>
        ELSE LET i == CHOOSE j \in dots : \A k \in dots : k <= j
             IN  IF 1 < i /\ i < Len(name) THEN SubSeq(name, i, Len(name))
                 ELSE <<>>

\* fnmatch.fnmatch on a POSIX host (os.path.normcase is the identity there)
RECURSIVE fnmatch(_, _)
fnmatch(name, pattern) ==
    IF pattern = <<>> THEN name = <<>>
    ELSE IF Head(pattern) = "*"
         THEN \/ fnmatch(name, Tail(pattern))
              \/ (name # <<>> /\ fnmatch(Tail(name), pattern))
    ELSE IF Head(pattern) = "?"
         THEN name # <<>> /\ fnmatch(Tail(name), Tail(pattern))
    ELSE /\ name # <<>>
         /\ Head(name) = Head(pattern)
         /\ fnmatch(Tail(name), Tail(pattern))

(***************************************************************************)
(* Configuration.                                                          *)
(***************************************************************************)
IGNORE_PATTERNS ==
    << "*.pyc", "__pycache__", ".git", ".gitignore", "node_modules",
       ".env", "*.log", ".DS_Store", "*.tmp", "*.temp", ".vscode",
       ".idea", "*.sqlite", "*.db", "dist", "build", ".pytest_cache" >>

should_ignore(path) ==
    LET name == Chars[Basename(path)]
    IN  \E i \in 1..Len(IGNORE_PATTERNS) : fnmatch(name, Chars[IGNORE_PATTERNS[i]])

Categories == << "readme", "license", "config", "docker", "ci", "env" >>

key_files_patterns ==
    [ readme  |-> << "README.md", "README.txt", "README.rst", "readme.md" >>,
      license |-> << "LICENSE", "LICENSE.txt", "LICENSE.md", "license" >>,
      config  |-> << "package.json", "requirements.txt", "setup.py", "Cargo.toml",
                     "composer.json", "pom.xml", "build.gradle", "Gemfile" >>,
      docker  |-> << "Dockerfile", "docker-compose.yml", "docker-compose.yaml" >>,
      ci      |-> << ".github/workflows", ".gitlab-ci.yml", ".travis.yml" >>,
      env     |-> << ".env.example", ".env.sample" >> ]

LanguageExtensions ==
    { Chars[e] : e \in {".py", ".js", ".ts", ".java", ".cpp", ".c", ".go",
                        ".rs", ".rb", ".php"} }

(***************************************************************************)
(* The file systems the model runs on.  A file system is a root path, a    *)
(* flag telling whether the root exists, for every directory (named by its *)
(* path relative to the root) the order in which the operating system      *)
(* lists its sub-directories and its files, and the set of files whose     *)
(* stat() raises OSError.                                                  *)
(***************************************************************************)
Roots == { <<"app">>, <<"package.json-lint">> }

DirPaths ==
    { <<>>, <<"src">>, <<"src", "lib">>, <<"src", "lib", "core">>,
      <<".git">>, <<".git", "objects">> }

FileUniverse ==
    { << <<>>, "README.md" >>, << <<>>, "package.json" >>, << <<>>, "Cargo.toml" >>,
      << <<>>, "main.PY" >>, << <<>>, "x.pyc" >>,
      << <<"src">>, "Cargo.toml" >>, << <<"src">>, "dockerfile" >>,
      << <<"src", "lib">>, "util.py" >>,
      << <<".git", "objects">>, "hook.py" >> }

ManyNames ==
    << "m01", "m02", "m03", "m04", "m05", "m06", "m07", "m08", "m09", "m10",
       "m11", "m12", "m13", "m14", "m15", "m16", "m17", "m18", "m19", "m20",
       "m21", "m22", "m23" >>

Perms(S) ==
    { s \in [1..Cardinality(S) -> S] :
        \A i, j \in 1..Cardinality(S) : i # j => s[i] # s[j] }

RECURSIVE SubsetsUpTo(_, _)
SubsetsUpTo(S, k) ==
    IF k = 0 THEN { {} }
    ELSE LET smaller == SubsetsUpTo(S, k - 1)
         IN  smaller \cup { T \cup {x} : T \in smaller, x \in S }

Reverse(s) == [i \in 1..Len(s) |-> s[Len(s) + 1 - i]]

ChildDirs(d) == { p[Len(p)] : p \in { q \in DirPaths : Len(q) = Len(d) + 1
                                                     /\ SubSeq(q, 1, Len(d)) = d } }

\* every order in which the sub-directories of each directory can be listed
DirListings ==
    { [d \in DirPaths |-> SelectSeq(r, LAMBDA n : n \in ChildDirs(d))] :
        r \in Perms(UNION { ChildDirs(d) : d \in DirPaths }) }

\* every order in which the files of each directory can be listed
FileListings(present) ==
    { [d \in DirPaths |->
         LET here == SelectSeq(r, LAMBDA x : x[1] = d)
         IN  [i \in 1..Len(here) |-> here[i][2]]] :
        r \in Perms(present) }

NoDirs == [d \in DirPaths |-> <<>>]

SmallFileSystems ==
    UNION { { [root |-> r, exists |-> TRUE, subdirs |-> sd, files |-> fl,
               denied |-> dn] :
                r \in Roots, sd \in DirListings, fl \in FileListings(present),
                dn \in SUBSET present } :
            present \in SubsetsUpTo(FileUniverse, MaxFiles) }

ManyFileSystems ==
    { [root |-> r, exists |-> TRUE, subdirs |-> sd,
       files |-> [d \in DirPaths |-> IF d = <<>> THEN fl ELSE <<>>],
       denied |-> dn] :
        r \in Roots, sd \in DirListings,
        fl \in UNION { { SubSeq(ManyNames, 1, n), Reverse(SubSeq(ManyNames, 1, n)) } :
                         n \in (StructureLimit - 1)..(StructureLimit + ManyExtra) },
        dn \in SUBSET { << <<>>, ManyNames[1] >>, << <<>>, ManyNames[2] >> } }

MissingFileSystems ==
    { [root |-> r, exists |-> FALSE, subdirs |-> NoDirs, files |-> NoDirs,
       denied |-> {}] : r \in Roots }

(***************************************************************************)
(* get_file_info                                                           *)
(***************************************************************************)
\* file_path.stat() raises OSError
StatFails(file_path) ==
    LET rel == RelativeTo(file_path, fs.root)
    IN  << SubSeq(rel, 1, Len(rel) - 1), rel[Len(rel)] >> \in fs.denied

\* stat.st_size: every file of the model holds its own name
StSize(file_path) == Len(Chars[Basename(file_path)])

\* a probe that keeps the extension of a file it could not stat
get_file_info_KeepsExtension(file_path) ==
    IF StatFails(file_path)
    THEN [name |-> Basename(file_path), path |-> file_path, error |-> "Access denied",
          extension |-> Suffix(Chars[Basename(file_path)])]
    ELSE [name      |-> Basename(file_path),
          path      |-> file_path,
          size      |-> StSize(file_path),
          is_file   |-> TRUE,
          extension |-> Suffix(Chars[Basename(file_path)])]

get_file_info(file_path) ==
    IF StatFails(file_path)
    THEN [name |-> Basename(file_path), path |-> file_path, error |-> "Access denied"]
    ELSE [name      |-> Basename(file_path),
          path      |-> file_path,
          size      |-> StSize(file_path),
          is_file   |-> TRUE,
          extension |-> Suffix(Chars[Basename(file_path)])]

(***************************************************************************)
(* analyze_project_structure                                               *)
(***************************************************************************)
\* project_root.exists()
Exists(project_path) == fs.exists /\ project_path = fs.root

\* a message that leaves the path out
ErrorMessage_NoPath(project_path) == Chars["Project path '"] \o Chars["' does not exist"]

ErrorMessage(project_path) ==
    Chars["Project path '"] \o PathStr(project_path) \o Chars["' does not exist"]

EmptyStructure(project_root) ==
    [root                 |-> project_root,
     files                |-> <<>>,
     directories          |-> <<>>,
     key_files            |-> <<>>,
     languages            |-> {},
     framework_indicators |-> <<>>]

\* len(Path(root).relative_to(project_root).parts)
CurrentDepth(root, project_root) == Len(RelativeTo(root, project_root))

\* a depth test that lets one more level through
TooDeep_OneMore(current_depth, max_depth) == current_depth > max_depth + 1

\* if current_depth > max_depth: continue
TooDeep(current_depth, max_depth) == current_depth > max_depth

\* dirs left as listed
FilteredDirs_Unfiltered(root, ds) == ds

\* dirs[:] = [d for d in dirs if not should_ignore(os.path.join(root, d))]
FilteredDirs(root, ds) == SelectSeq(ds, LAMBDA d : ~should_ignore(root \o <<d>>))

\* os.walk, top-down: after the loop body has run for root, the directories
\* left in dirs are walked in order, each one before the next one's subtree
PushDirs(stk, root, ds) ==
    stk \o [i \in 1..Len(ds) |-> root \o <<ds[Len(ds) + 1 - i]>>]

\* the suffix taken as written
DetectExt_CaseSensitive(file_path) == Suffix(Chars[Basename(file_path)])

\* ext = file_path.suffix.lower()
DetectExt(file_path) == Lower(Suffix(Chars[Basename(file_path)]))

\* if ext in [...]: structure["languages"].add(ext[1:])
AddLanguage(languages, ext) ==
    IF ext \in LanguageExtensions THEN languages \cup {Tail(ext)} ELSE languages

\* file.lower() == pattern.lower() or file == pattern
MatchesPattern(file, pattern) ==
    Lower(Chars[file]) = Lower(Chars[pattern]) \/ file = pattern

\* the first match of a category is kept
SetKey_FirstWins(key_files, category, path) ==
    IF \E i \in 1..Len(key_files) : key_files[i][1] = category
    THEN key_files
    ELSE Append(key_files, <<category, path>>)

\* structure["key_files"][category] = path; a dict keeps the position of a key
\* that is assigned again
SetKey(key_files, category, path) ==
    IF \E i \in 1..Len(key_files) : key_files[i][1] = category
    THEN [i \in 1..Len(key_files) |->
            IF key_files[i][1] = category THEN <<category, path>> ELSE key_files[i]]
    ELSE Append(key_files, <<category, path>>)

\* for category, patterns in key_files_patterns.items(): for pattern in patterns
RECURSIVE CheckKeyFiles(_, _, _, _)
CheckKeyFiles(key_files, file, file_path, c) ==
    IF c > Len(Categories) THEN key_files
    ELSE LET category == Categories[c]
             patterns == key_files_patterns[category]
             hit      == \E i \in 1..Len(patterns) : MatchesPattern(file, patterns[i])
         IN  CheckKeyFiles(IF hit THEN SetKey(key_files, category, file_path)
                           ELSE key_files,
                           file, file_path, c + 1)

(***************************************************************************)
(* generate_readme.  The document is the sequence of the pieces of text    *)
(* the code appends to readme_content, a literal of the code being one     *)
(* piece; the text is their concatenation.  The backquote, which a TLA+    *)
(* string cannot hold, is written ~.                                       *)
(***************************************************************************)
RECURSIVE Flatten(_)
Flatten(ss) == IF ss = <<>> THEN <<>> ELSE Head(ss) \o Flatten(Tail(ss))

\* the segments of a path with the separator between them: str(rel_path)
RECURSIVE Between(_, _)
Between(segs, sep) ==
    IF Len(segs) <= 1 THEN segs
    ELSE <<Head(segs), sep>> \o Between(Tail(segs), sep)

\* repr of a str that holds no quote and no backslash
ReprStr(s) == Chars["'"] \o s \o Chars["'"]

\* str(analysis.get("key_files", {}))
RECURSIVE ReprItems(_)
ReprItems(key_files) ==
    IF key_files = <<>> THEN <<>>
    ELSE LET item == ReprStr(Chars[key_files[1][1]]) \o Chars[": "]
                       \o ReprStr(PathStr(key_files[1][2]))
         IN  IF Len(key_files) = 1 THEN item
             ELSE item \o Chars[", "] \o ReprItems(Tail(key_files))

StrDict(key_files) == Chars["{"] \o ReprItems(key_files) \o Chars["}"]

InstallationBlock(key_files) ==
    IF Contains(StrDict(key_files), Chars["package.json"])
    THEN "~~~bash\nnpm install\n~~~\n\n"
    ELSE IF Contains(StrDict(key_files), Chars["requirements.txt"])
    THEN "~~~bash\npip install -r requirements.txt\n~~~\n\n"
    ELSE IF Contains(StrDict(key_files), Chars["Cargo.toml"])
    THEN "~~~bash\ncargo build\n~~~\n\n"
    ELSE "Add installation instructions here.\n\n"

\* the order of str
RECURSIVE StrLess(_, _)
StrLess(a, b) ==
    IF b = <<>> THEN FALSE
    ELSE IF a = <<>> THEN TRUE
    ELSE IF Head(a) # Head(b) THEN CharCode[Head(a)] < CharCode[Head(b)]
    ELSE StrLess(Tail(a), Tail(b))

\* a strict limit
ShowStructure_Strict(files) == Len(files) < StructureLimit

\* if len(analysis["files"]) <= 20
ShowStructure(files) == Len(files) <= StructureLimit

TechnologiesSection(languages) ==
    IF languages = <<>> THEN <<>>
    ELSE LET sorted == SortSeq(languages, LAMBDA a, b : StrLess(a, b))
         IN  <<"## Technologies Used\n\n">>
             \o Flatten([i \in 1..Len(sorted) |-> <<"- ">> \o Upper(sorted[i]) \o <<"\n">>])
             \o <<"\n">>

StructureSection(files, root) ==
    IF ~ShowStructure(files) THEN <<>>
    ELSE LET sorted == SortSeq(files, LAMBDA x, y : StrLess(PathStr(x.path), PathStr(y.path)))
             listed == SelectSeq(sorted, LAMBDA x :
                           IF "is_file" \in DOMAIN x THEN x.is_file ELSE TRUE)
         IN  <<"## Project Structure\n\n", "~~~\n">>
             \o Flatten([i \in 1..Len(listed) |->
                            Between(RelativeTo(listed[i].path, root), "/") \o <<"\n">>])
             \o <<"~~~\n\n">>

HasKey(key_files, category) == \E i \in 1..Len(key_files) : key_files[i][1] = category

LicenseSection(key_files) ==
    IF HasKey(key_files, "license")
    THEN <<"## License\n\n",
           "This project is licensed under the terms found in the LICENSE file.\n\n">>
    ELSE <<>>

ReadmeContent(an, project_path, project_name, description) ==
    LET name == IF project_name = None THEN Basename(project_path) ELSE project_name
    IN  <<"# ", name, "\n\n">>
        \o (IF description = None THEN <<"A brief description of your project.\n\n">>
            ELSE <<description, "\n\n">>)
        \o TechnologiesSection(an.languages)
        \o <<"## Installation\n\n", InstallationBlock(an.key_files)>>
        \o <<"## Usage\n\n", "Describe how to use your project here.\n\n">>
        \o StructureSection(an.files, an.root)
        \o <<"## Contributing\n\n",
             "1. Fork the repository\n",
             "2. Create your feature branch (~git checkout -b feature/AmazingFeature~)\n",
             "3. Commit your changes (~git commit -m 'Add some AmazingFeature'~)\n",
             "4. Push to the branch (~git push origin feature/AmazingFeature~)\n",
             "5. Open a Pull Request\n\n">>
        \o LicenseSection(an.key_files)

(***************************************************************************)
(* The state machine.                                                      *)
(***************************************************************************)
Init ==
    /\ fs \in SmallFileSystems \cup ManyFileSystems \cup MissingFileSystems
    /\ call = None
    /\ pc = "idle"
    /\ stack = <<>>
    /\ cur = <<>>
    /\ dirs = <<>>
    /\ pending = <<>>
    /\ structure = None
    /\ analysis = None
    /\ visited = <<>>
    /\ result = None

\* entry of analyze_project_structure, reached from each of its callers
Enter(op, project_path, max_depth, project_name, description) ==
    /\ pc = "idle"
    /\ call' = [op |-> op, project_path |-> project_path, max_depth |-> max_depth,
                project_name |-> project_name, description |-> description]
    /\ IF ~Exists(project_path)
       THEN /\ analysis' = [error |-> ErrorMessage(project_path)]
            /\ result' = IF op = "generate_readme"
                         THEN Chars["Error: "] \o ErrorMessage(project_path)
                         ELSE analysis'
            /\ pc' = "done"
            /\ UNCHANGED <<stack, structure>>
       ELSE /\ structure' = EmptyStructure(project_path)
            /\ stack' = <<project_path>>
            /\ pc' = "walk"
            /\ UNCHANGED <<analysis, result>>
    /\ UNCHANGED <<fs, cur, dirs, pending, visited>>

\* the optional arguments of generate_readme: both left out, or both given
GenerateArgs ==
    { [project_name |-> None, description |-> None],
      [project_name |-> "Demo", description |-> "A demo."] }

analyze_project_structure ==
    \E max_depth \in 0..MaxDepthArg :
        Enter("analyze_project_structure", fs.root, max_depth, None, None)

scan_project == Enter("scan_project", fs.root, DefaultMaxDepth, None, None)

generate_readme ==
    \E args \in GenerateArgs :
        Enter("generate_readme", fs.root, DefaultMaxDepth, args.project_name,
              args.description)

\* os.walk yields a directory deeper than max_depth: the body is skipped and
\* dirs is left as listed
WalkSkip ==
    /\ pc = "walk"
    /\ stack # <<>>
    /\ LET root == stack[Len(stack)]
           ds   == fs.subdirs[RelativeTo(root, structure.root)]
       IN  /\ TooDeep(CurrentDepth(root, structure.root), call.max_depth)
           /\ visited' = Append(visited, root)
           /\ cur' = root
           /\ dirs' = ds
           /\ pending' = <<>>
           /\ stack' = PushDirs(SubSeq(stack, 1, Len(stack) - 1), root, ds)
    /\ UNCHANGED <<fs, call, pc, structure, analysis, result>>

\* os.walk yields a directory within max_depth: dirs is filtered in place
WalkEnter ==
    /\ pc = "walk"
    /\ stack # <<>>
    /\ LET root == stack[Len(stack)]
           rel  == RelativeTo(root, structure.root)
       IN  /\ ~TooDeep(CurrentDepth(root, structure.root), call.max_depth)
           /\ visited' = Append(visited, root)
           /\ cur' = root
           /\ dirs' = FilteredDirs(root, fs.subdirs[rel])
           /\ pending' = fs.files[rel]
           /\ stack' = SubSeq(stack, 1, Len(stack) - 1)
    /\ pc' = "files"
    /\ UNCHANGED <<fs, call, structure, analysis, result>>

\* for file in files: an ignored file
SkipFile ==
    /\ pc = "files"
    /\ pending # <<>>
    /\ should_ignore(cur \o <<Head(pending)>>)
    /\ pending' = Tail(pending)
    /\ UNCHANGED <<fs, call, pc, stack, cur, dirs, structure, analysis, visited, result>>

\* for file in files: a recorded file
RecordFile ==
    /\ pc = "files"
    /\ pending # <<>>
    /\ LET file      == Head(pending)
           file_path == cur \o <<file>>
       IN  /\ ~should_ignore(file_path)
           /\ structure' =
                [structure EXCEPT
                   !.files = Append(@, get_file_info(file_path)),
                   !.languages = AddLanguage(@, DetectExt(file_path)),
                   !.key_files = CheckKeyFiles(@, file, file_path, 1)]
    /\ pending' = Tail(pending)
    /\ UNCHANGED <<fs, call, pc, stack, cur, dirs, analysis, visited, result>>

\* the loop body ends: os.walk goes on with the directories left in dirs
NextDir ==
    /\ pc = "files"
    /\ pending = <<>>
    /\ stack' = PushDirs(stack, cur, dirs)
    /\ pc' = "walk"
    /\ UNCHANGED <<fs, call, cur, dirs, pending, structure, analysis, visited, result>>

\* structure["languages"] = list(structure["languages"]); return structure
Return ==
    /\ pc = "walk"
    /\ stack = <<>>
    /\ \E languages \in Perms(structure.languages) :
          analysis' = [structure EXCEPT !.languages = languages]
    /\ IF call.op = "generate_readme"
       THEN pc' = "synth" /\ UNCHANGED result
       ELSE pc' = "done" /\ result' = analysis'
    /\ UNCHANGED <<fs, call, stack, cur, dirs, pending, structure, visited>>

\* generate_readme, after the analysis
Synthesize ==
    /\ pc = "synth"
    /\ result' = ReadmeContent(analysis, call.project_path, call.project_name,
                               call.description)
    /\ pc' = "done"
    /\ UNCHANGED <<fs, call, stack, cur, dirs, pending, structure, analysis, visited>>

Next ==
    \/ analyze_project_structure
    \/ scan_project
    \/ generate_readme
    \/ WalkSkip
    \/ WalkEnter
    \/ SkipFile
    \/ RecordFile
    \/ NextDir
    \/ Return
    \/ Synthesize

Spec == Init /\ [][Next]_vars


(***************************************************************************)
(* Vocabulary of the properties.                                           *)
(***************************************************************************)
\* a call on an existing root has started: structure is built
Walking == pc # "idle" /\ fs.exists

\* the analysis of an existing root has returned
Analyzed == pc \in {"synth", "done"} /\ fs.exists

\* a tool has returned
Finished(op) == pc = "done" /\ call.op = op

NoDuplicates(s) == \A i, j \in 1..Len(s) : i # j => s[i] # s[j]

\* the base name matches one of the fixed ignore patterns
IgnoredNames ==
    { n \in DOMAIN Chars : \E p \in Range(IGNORE_PATTERNS) : fnmatch(Chars[n], Chars[p]) }

IgnoredName(n) == n \in IgnoredNames

\* number of path segments of an entry's path relative to the analyzed root
EntryDepth(e) == Len(RelativeTo(e.path, call.project_path))

\* the files of the tree that lie in a directory within the depth bound,
\* reached through directories that are not ignored, and are not ignored
Eligible ==
    { x \in UNION { { <<d, n>> : n \in Range(fs.files[d]) } : d \in DirPaths } :
        /\ Len(x[1]) <= call.max_depth
        /\ \A k \in 1..Len(x[1]) : ~IgnoredName(x[1][k])
        /\ ~IgnoredName(x[2]) }

EntryKey(e) ==
    LET rel == RelativeTo(e.path, call.project_path)
    IN  << SubSeq(rel, 1, Len(rel) - 1), rel[Len(rel)] >>

\* position of a directory in the order the walker yields directories
VisitIndex(d) == CHOOSE i \in 1..Len(visited) : visited[i] = call.project_path \o d

\* position of a file in the listing of its directory
ListIndex(x) == CHOOSE i \in 1..Len(fs.files[x[1]]) : fs.files[x[1]][i] = x[2]

\* the language tag of a recorded entry, as a set of zero or one tag
TagsOf(e) ==
    LET ext == Lower(Suffix(Chars[e.name]))
    IN  IF ext \in LanguageExtensions THEN {Tail(ext)} ELSE {}

\* the name equals, case-insensitively, one of the category's patterns
CategoryNames ==
    [ c \in Range(Categories) |->
        { n \in DOMAIN Chars :
            \E p \in Range(key_files_patterns[c]) : Lower(Chars[n]) = Lower(Chars[p]) } ]

NameInCategory(n, c) == n \in CategoryNames[c]

NpmBlock == "~~~bash\nnpm install\n~~~\n\n"
PipBlock == "~~~bash\npip install -r requirements.txt\n~~~\n\n"
CargoBlock == "~~~bash\ncargo build\n~~~\n\n"
GenericBlock == "Add installation instructions here.\n\n"
InstallBlocks == {NpmBlock, PipBlock, CargoBlock, GenericBlock}

(***************************************************************************)
(* C1.  After analyze_project_structure(R, D) no entry of files has a      *)
(* depth (number of path segments relative to R) greater than D.           *)
(* This is the claim as stated; the code bounds the depth of the           *)
(* directory, so a file may lie one segment deeper.                        *)
(***************************************************************************)
C1_FileDepthAtMostD ==
    Analyzed =>
        \A i \in 1..Len(analysis.files) : EntryDepth(analysis.files[i]) <= call.max_depth

\* C1, amended: after analyze_project_structure(R, D) no entry of files has a
\* depth greater than D + 1, the directory that holds it having a depth of at
\* most D.
C1_FileDepthAtMostDPlusOne ==
    Analyzed =>
        \A i \in 1..Len(analysis.files) :
            EntryDepth(analysis.files[i]) <= call.max_depth + 1

\* a run that recorded a file at depth D + 1 and left out a deeper one
C1_Witness ==
    /\ Analyzed
    /\ \E i \in 1..Len(analysis.files) :
          EntryDepth(analysis.files[i]) = call.max_depth + 1
    /\ \E d \in DirPaths : Len(d) > call.max_depth /\ fs.files[d] # <<>>

(***************************************************************************)
(* C2.  The files returned by scan_project(R) hold no entry whose base     *)
(* name matches an ignore pattern, and no entry below a directory of the   *)
(* tree under R whose base name matches an ignore pattern, at any depth.   *)
(***************************************************************************)
C2_NoIgnoredEntries ==
    (Finished("scan_project") /\ fs.exists) =>
        \A i \in 1..Len(result.files) :
            LET rel == RelativeTo(result.files[i].path, result.root)
            IN  \A k \in 1..Len(rel) : ~IgnoredName(rel[k])

\* scan_project returned entries from a tree that holds an ignored file and a
\* file nested in an ignored directory
C2_Witness ==
    /\ Finished("scan_project")
    /\ fs.exists
    /\ \E d \in DirPaths : \E i \in 1..Len(fs.files[d]) :
          (\E k \in 1..Len(d) : IgnoredName(d[k])) /\ Len(d) >= 2
    /\ \E d \in DirPaths : \E i \in 1..Len(fs.files[d]) :
          (\A k \in 1..Len(d) : ~IgnoredName(d[k])) /\ ~IgnoredName(fs.files[d][i])
    /\ Len(result.files) = 1

(***************************************************************************)
(* C3.  When the analysis recorded both a package.json and a Cargo.toml,   *)
(* in any traversal order, generate_readme emits the npm install block and *)
(* not the cargo build block.                                              *)
(***************************************************************************)
C3_NpmBeforeCargo ==
    (/\ Finished("generate_readme")
     /\ fs.exists
     /\ \E e \in Range(analysis.files) : e.name = "package.json"
     /\ \E e \in Range(analysis.files) : e.name = "Cargo.toml")
    => (NpmBlock \in Range(result) /\ CargoBlock \notin Range(result))

(***************************************************************************)
(* C4.  After an analysis languages has no duplicate tag and holds exactly *)
(* the tags of the allowlisted extensions (lowercased) of the recorded     *)
(* files whose metadata probe succeeded.  This is the claim as stated; the *)
(* code takes the tag from the path and does not consult the probe.        *)
(***************************************************************************)
C4_LanguagesOfProbedFiles ==
    Analyzed =>
        /\ NoDuplicates(analysis.languages)
        /\ Range(analysis.languages) =
             UNION { TagsOf(e) : e \in { f \in Range(analysis.files) :
                                           "error" \notin DOMAIN f } }

\* C4, amended: after an analysis languages has no duplicate tag and holds
\* exactly the tags of the allowlisted extensions (lowercased) of the recorded
\* files, whether their metadata probe succeeded or failed.
C4_LanguagesOfRecordedFiles ==
    Analyzed =>
        /\ NoDuplicates(analysis.languages)
        /\ Range(analysis.languages) = UNION { TagsOf(e) : e \in Range(analysis.files) }

\* an analysis that recorded a file with an upper-case allowlisted extension
\* whose probe failed, next to another recorded file
C4_Witness ==
    /\ Analyzed
    /\ \E e \in Range(analysis.files) :
          "error" \in DOMAIN e /\ e.name = "main.PY"
    /\ Len(analysis.files) >= 2
    /\ analysis.languages # <<>>

(***************************************************************************)
(* C5.  On a root that does not exist scan_project returns a result whose  *)
(* only key is error, with a message that contains the path; the walker    *)
(* takes no step and no file is recorded.                                  *)
(***************************************************************************)
C5_MissingRootIsError ==
    (Finished("scan_project") /\ ~fs.exists) =>
        /\ DOMAIN result = {"error"}
        /\ Contains(result.error, PathStr(call.project_path))
        /\ visited = <<>>
        /\ stack = <<>>
        /\ pending = <<>>

C5_Witness == Finished("scan_project") /\ ~fs.exists

(***************************************************************************)
(* C6.  The document of generate_readme for an existing root holds the     *)
(* Project Structure section if and only if the analysis recorded at most  *)
(* 20 files.                                                               *)
(***************************************************************************)
C6_StructureSectionIffAtMost20 ==
    (Finished("generate_readme") /\ fs.exists) =>
        (("## Project Structure\n\n" \in Range(result)) <=> (Len(analysis.files) <= 20))

\* a document with the section, made from exactly 20 recorded files
C6_Witness ==
    /\ Finished("generate_readme")
    /\ fs.exists
    /\ Len(analysis.files) = 20
    /\ "## Project Structure\n\n" \in Range(result)

(***************************************************************************)
(* C7.  A failed metadata probe never aborts the scan: whatever the probe  *)
(* outcomes, every non-ignored file of a directory within the depth bound  *)
(* yields exactly one entry, in encounter order, and an entry carries      *)
(* either size, is_file and extension and no error, or error and none of   *)
(* the three.                                                              *)
(***************************************************************************)
C7_ProbeFailureKeepsScanning ==
    Analyzed =>
        LET files == analysis.files
        IN  /\ { EntryKey(e) : e \in Range(files) } = Eligible
            /\ Len(files) = Cardinality(Eligible)
            /\ \A i, j \in 1..Len(files) :
                 i < j =>
                   LET x == EntryKey(files[i])
                       y == EntryKey(files[j])
                   IN  \/ VisitIndex(x[1]) < VisitIndex(y[1])
                       \/ (x[1] = y[1] /\ ListIndex(x) < ListIndex(y))
            /\ \A e \in Range(files) :
                 /\ e.name = EntryKey(e)[2]
                 /\ \/ DOMAIN e = {"name", "path", "size", "is_file", "extension"}
                    \/ DOMAIN e = {"name", "path", "error"}
                 /\ ("error" \in DOMAIN e) <=> (EntryKey(e) \in fs.denied)

\* a scan that went on after a failed probe: a failed entry is followed by a
\* successful one
C7_Witness ==
    /\ Analyzed
    /\ \E i, j \in 1..Len(analysis.files) :
          /\ i < j
          /\ "error" \in DOMAIN analysis.files[i]
          /\ "size" \in DOMAIN analysis.files[j]

(***************************************************************************)
(* C8.  During the walk a directory whose depth exceeds max_depth is never *)
(* descended into: none of its child directories is visited by the walker, *)
(* so every directory the walker yields has a depth of at most             *)
(* max_depth + 1.                                                          *)
(***************************************************************************)
C8_NoDescentBelowDepth ==
    Walking =>
        \A i \in 1..Len(visited) :
            CurrentDepth(visited[i], call.project_path) <= call.max_depth + 1

(***************************************************************************)
(* C9.  For every category c, key_files holds c if and only if a recorded  *)
(* file has a name equal, case-insensitively, to one of c's patterns; its  *)
(* value is the path of the last such file in encounter order; and every   *)
(* value of key_files is the path of an entry of files.                    *)
(***************************************************************************)
C9_KeyFilesLastMatch ==
    Walking =>
        LET files == structure.files
            kf    == structure.key_files
        IN  /\ NoDuplicates([i \in 1..Len(kf) |-> kf[i][1]])
            /\ \A c \in Range(Categories) :
                 LET hits == { i \in 1..Len(files) : NameInCategory(files[i].name, c) }
                 IN  /\ (\E k \in 1..Len(kf) : kf[k][1] = c) <=> (hits # {})
                     /\ \A k \in 1..Len(kf) :
                          kf[k][1] = c =>
                            kf[k][2] = files[CHOOSE i \in hits : \A j \in hits : j <= i].path
            /\ \A k \in 1..Len(kf) :
                 /\ kf[k][1] \in Range(Categories)
                 /\ \E i \in 1..Len(files) : files[i].path = kf[k][2]

\* two recorded files of the same category, the later one being the one kept
C9_Witness ==
    /\ Analyzed
    /\ \E i, j \in 1..Len(structure.files) :
          /\ i < j
          /\ NameInCategory(structure.files[i].name, "config")
          /\ NameInCategory(structure.files[j].name, "config")
          /\ <<"config", structure.files[j].path>> \in Range(structure.key_files)

(***************************************************************************)
(* C10.  The installation block of generate_readme depends only on the     *)
(* path recorded under config: the document holds the block that the       *)
(* config entry alone selects, whatever the root path and the paths of the *)
(* other categories, and the generic placeholder when there is no config   *)
(* entry.                                                                  *)
(***************************************************************************)
C10_InstallationFromConfigOnly ==
    (Finished("generate_readme") /\ fs.exists) =>
        LET config == SelectSeq(analysis.key_files, LAMBDA kv : kv[1] = "config")
            chosen == IF config = <<>> THEN GenericBlock ELSE InstallationBlock(config)
        IN  \A b \in InstallBlocks : (b \in Range(result)) <=> (b = chosen)
====
